---- MODULE Spec2Model ----
(***************************************************************************)
(* Model of preview.py and generate_svg.py:                                *)
(*   get_claude_stats  - scan of the JSONL log tree, cache fallback, cost  *)
(*   get_github_stats  - status probe, primary query, get_all_commits,     *)
(*                       get_loc_stats, cache fallback                     *)
(*   save_stats_cache  - the two cache files and the reads of them         *)
(*   stat_line, line   - the dot-leader rows of both renderers             *)
(*   format_number     - the K and M forms of a count                      *)
(*   generate_svg      - the rows, the canvas height, the text elements    *)
(*   render_nfo        - the rows of the two tables                        *)
(* External collaborators (the gh CLI, the file system) are the            *)
(* environment: every call draws its outcome from a small set.             *)
(***************************************************************************)
EXTENDS Integers, Sequences, FiniteSets, TLC

VARIABLES
    \* ---- get_claude_stats ----
    cpc,                    \* position: "scan", "lines", "except", "returned"
    claude_dir_exists,      \* claude_dir.exists()
    files_left,             \* *.jsonl files rglob has still to yield
    n_files,                \* number of *.jsonl files in the tree (input)
    f,                      \* lines the open file has still to yield
    total_input, total_output, total_cache_creation, total_cache_read,
    session_count, message_count,
    stats_json,             \* cache/stats.json as found on disk
    cache_consulted,        \* whether cache/stats.json was looked at
    claude_result,          \* the returned record
    messages_at_open,       \* message_count when the open file was opened
    file_content,           \* all lines of the file opened last
    \* ---- get_github_stats ----
    gpc,                    \* position in get_github_stats and its callees
    github_stats_json,      \* cache/github_stats.json as found on disk
    degraded,               \* "no", or the call that failed: "probe", "primary"
    data,                   \* response of the primary aggregate query
    n_repos,                \* get_all_commits: length of repos_data
    commit_log,             \* get_all_commits: commit_data of each repo so far
    total_commits,
    repos,                  \* get_loc_stats: fork flag of each listed repo
    repo_i,                 \* get_loc_stats: index of the repo being processed
    attempt,                \* get_loc_stats: attempt of range(3)
    stats_log,              \* get_loc_stats: responses received, per repo
    total_added, total_deleted,
    loc_stats,              \* record returned by get_loc_stats
    github_result,          \* record returned by get_github_stats
    exc,                    \* exception that left get_github_stats, or "none"
    \* ---- save_stats_cache and the cache reads of one process ----
    kpc,                    \* position in save_stats_cache, or "idle"
    save_claude,            \* argument claude_stats of the running call
    save_github,            \* argument github_stats of the running call
    saves,                  \* calls of save_stats_cache that have ended
    last_claude,            \* claude_stats of the call that ended last
    last_github,            \* github_stats of the call that ended last
    rpc,                    \* render_nfo: "idle", "loaded", "raised"
    render_github,          \* render_nfo: the local github
    \* ---- the dot-leader rows of the two renderers ----
    row_key, row_value,     \* arguments of stat_line: key and str(value)
    rendered,               \* which of the rows have been built
    svg_dots, svg_row,      \* generate_svg.stat_line: dots, the returned row
    nfo_dots,               \* render_nfo.stat_line: the dots of dots_str
    nfo_visible_len,        \* render_nfo.line: visible_len
    nfo_padding,            \* render_nfo.line: padding
    nfo_row,                \* render_nfo.stat_line: the returned line
    loc_dots,               \* generate_svg: dots of the lines-of-code row
    \* ---- format_number ----
    num,                    \* the argument n
    formatted,              \* the returned string, <<>> before the call
    \* ---- generate_svg and the rows of render_nfo ----
    renderer,               \* the script that runs: "svg" or "nfo"
    in_claude, in_github,   \* the records claude and github of the renderer
    header_art,             \* generate_svg: the rows of the artwork
    tagline,                \* generate_svg: the text under the artwork
    spc,                    \* position: "build", "height", "emit", "done",
                            \* "raised"
    lines,                  \* generate_svg: (text, color, spacing) entries
    idx,                    \* index of the entry a loop is at
    total_height, height,   \* generate_svg, lines 199-207
    y,                      \* generate_svg: y of the row being emitted
    svg,                    \* generate_svg: the text elements emitted
    nfo_out                 \* render_nfo: the rows appended to output

cvars == <<cpc, claude_dir_exists, files_left, n_files, f, total_input,
           total_output, total_cache_creation, total_cache_read,
           session_count, message_count, stats_json, cache_consulted,
           claude_result, messages_at_open, file_content>>

gvars == <<gpc, github_stats_json, degraded, data, n_repos, commit_log,
           total_commits, repos, repo_i, attempt, stats_log, total_added,
           total_deleted, loc_stats, github_result, exc>>

kvars == <<kpc, save_claude, save_github, saves, last_claude, last_github,
           rpc, render_github>>

lvars == <<row_key, row_value, rendered, svg_dots, svg_row, nfo_dots, nfo_visible_len,
           nfo_padding, nfo_row, loc_dots>>

nvars == <<num, formatted>>

svars == <<renderer, in_claude, in_github, header_art, tagline, spc, lines,
           idx, total_height, height, y, svg, nfo_out>>

\* the variables outside the two aggregators
xvars == <<kvars, lvars, nvars, svars>>

vars == <<cvars, gvars, xvars>>

----------------------------------------------------------------------------
\* Bounds of the model
MaxFiles == 1           \* log files in the tree
MaxLines == 3           \* lines per log file
MaxRepos == 2           \* repositories a listing returns
MaxSaves == 2           \* calls of save_stats_cache
MaxValueLen == 92       \* characters of a value handed to stat_line
MaxMantissa == 23       \* leading digits of a number handed to format_number
MaxArtRows == 1         \* rows of the artwork above the tables

----------------------------------------------------------------------------
\* JSON values of the log lines

EmptyDict == [k \in {} |-> 0]

TokenFields == {"input_tokens", "output_tokens",
                "cache_creation_input_tokens", "cache_read_input_tokens"}

\* A line of a log file: json is "invalid" (json.loads raises
\* JSONDecodeError), "scalar" (a number, null, true: valid JSON that is no
\* container) or "object"; message is "absent", "nondict" or "dict";
\* usage is the value of message.usage when has_usage.
MkLine(j, m, h, u) == [json |-> j, message |-> m, has_usage |-> h, usage |-> u]

BadLine      == MkLine("invalid", "absent", FALSE, EmptyDict)
ScalarLine   == MkLine("scalar", "absent", FALSE, EmptyDict)
NoMessage    == MkLine("object", "absent", FALSE, EmptyDict)
NoUsage      == MkLine("object", "dict", FALSE, EmptyDict)
EmptyUsage   == MkLine("object", "dict", TRUE, EmptyDict)
OtherUsage   == MkLine("object", "dict", TRUE, [service_tier |-> 1])
PartialUsage == MkLine("object", "dict", TRUE,
                       [input_tokens |-> 1, output_tokens |-> 2])
FullUsage    == MkLine("object", "dict", TRUE,
                       [input_tokens |-> 2, output_tokens |-> 1,
                        cache_creation_input_tokens |-> 1,
                        cache_read_input_tokens |-> 3])

LineSet == {BadLine, ScalarLine, NoMessage, NoUsage, EmptyUsage, OtherUsage,
            PartialUsage, FullUsage}

FileContents == UNION {[1..n -> LineSet] : n \in 0..MaxLines}

----------------------------------------------------------------------------
\* Records

\* cost_estimate is held in millionths of a currency unit: the code divides
\* each term by 1_000_000.
ClaudeRecord(ti, to, tcc, tcr, sc, mc, cost) ==
    [input_tokens |-> ti, output_tokens |-> to, cache_creation |-> tcc,
     cache_read |-> tcr, total_tokens |-> ti + to + tcc + tcr,
     sessions |-> sc, messages |-> mc, cost_estimate |-> cost]

\* Local-usage records a saved snapshot may hold (saved by an earlier run)
CachedClaude == { [input_tokens |-> 5, output_tokens |-> 4, cache_creation |-> 3,
                   cache_read |-> 2, total_tokens |-> 14, sessions |-> 2,
                   messages |-> 6, cost_estimate |-> 202],
                  [input_tokens |-> 0, output_tokens |-> 0, cache_creation |-> 0,
                   cache_read |-> 0, total_tokens |-> 0, sessions |-> 1,
                   messages |-> 0, cost_estimate |-> 0] }

NoClaude == ClaudeRecord(0, 0, 0, 0, 0, 0, 0)

\* cache/stats.json: absent, present but not parseable, or a JSON object
\* with or without the 'claude' key
StatsJsonStates ==
    { [file |-> "absent", has_claude |-> FALSE, claude |-> NoClaude],
      [file |-> "corrupt", has_claude |-> FALSE, claude |-> NoClaude],
      [file |-> "json", has_claude |-> FALSE, claude |-> NoClaude] }
    \cup { [file |-> "json", has_claude |-> TRUE, claude |-> c] : c \in CachedClaude }

----------------------------------------------------------------------------
\* get_claude_stats

\* dict.get(key, 0)
Get(d, key) == IF key \in DOMAIN d THEN d[key] ELSE 0

\* Python truth value of a dict
Truthy(d) == DOMAIN d # {}

\* data['message'].get('usage', {})
UsageOf(line) == IF line.has_usage THEN line.usage ELSE EmptyDict

\* 'message' in data and isinstance(data['message'], dict)
HasMessageDict(line) == line.json = "object" /\ line.message = "dict"

\* Mutant of Counted: a record counts only when its usage carries one of the
\* four token fields
CountedIfTokenField(line) ==
    HasMessageDict(line) /\ DOMAIN UsageOf(line) \cap TokenFields # {}

\* if usage: the record is counted
Counted(line) == HasMessageDict(line) /\ Truthy(UsageOf(line))

\* How the body of the per-line try block ends: "skip" (JSONDecodeError,
\* caught per line), "abort" (another exception, caught per file) or "ok"
LineOutcome(line) ==
    IF line.json = "invalid" THEN "skip"
    ELSE IF line.json = "scalar" THEN "abort"
    ELSE "ok"

InputRate == 10
OutputRate == 30
CacheReadRate == 1

\* Mutant of CostEstimate: the output rate of the cheaper tier
CostEstimateCheapOutput(ti, to, tcc, tcr) ==
    (ti + tcc) * InputRate + to * 15 + tcr * CacheReadRate

CostEstimate(ti, to, tcc, tcr) ==
    LET input_cost == (ti + tcc) * InputRate
        output_cost == to * OutputRate
        cache_read_cost == tcr * CacheReadRate
    IN input_cost + output_cost + cache_read_cost

ClaudeInit ==
    /\ cpc = "scan"
    /\ claude_dir_exists \in BOOLEAN
    /\ n_files \in 0..MaxFiles
    /\ (~claude_dir_exists => n_files = 0)
    /\ files_left = n_files
    /\ f = <<>>
    /\ total_input = 0 /\ total_output = 0
    /\ total_cache_creation = 0 /\ total_cache_read = 0
    /\ session_count = 0 /\ message_count = 0
    /\ stats_json \in StatsJsonStates
    /\ cache_consulted = FALSE
    /\ claude_result = NoClaude
    /\ messages_at_open = 0
    /\ file_content = <<>>

\* for jsonl_file in claude_dir.rglob("*.jsonl"): session_count += 1; open
OpenFile ==
    /\ UNCHANGED <<gvars, xvars>>
    /\ cpc = "scan" /\ claude_dir_exists /\ files_left > 0
    /\ files_left' = files_left - 1
    /\ session_count' = session_count + 1
    /\ \/ \* open() raises: except Exception: continue
          /\ cpc' = "scan" /\ f' = <<>> /\ file_content' = <<>>
          /\ messages_at_open' = 0
       \/ \E content \in FileContents :
          /\ cpc' = "lines" /\ f' = content /\ file_content' = content
          /\ messages_at_open' = message_count
    /\ UNCHANGED <<claude_dir_exists, n_files, total_input, total_output,
                   total_cache_creation, total_cache_read, message_count,
                   stats_json, cache_consulted, claude_result>>

\* one iteration of: for line in f
ReadLine ==
    /\ UNCHANGED <<gvars, xvars>>
    /\ cpc = "lines" /\ f # <<>>
    /\ LET line == Head(f)
           usage == UsageOf(line)
       IN CASE LineOutcome(line) = "skip" ->
                 /\ f' = Tail(f) /\ cpc' = "lines"
                 /\ UNCHANGED <<total_input, total_output, total_cache_creation,
                                total_cache_read, message_count>>
            [] LineOutcome(line) = "abort" ->
                 /\ f' = Tail(f) /\ cpc' = "except"
                 /\ UNCHANGED <<total_input, total_output, total_cache_creation,
                                total_cache_read, message_count>>
            [] OTHER ->
                 /\ f' = Tail(f) /\ cpc' = "lines"
                 /\ IF Counted(line)
                    THEN /\ message_count' = message_count + 1
                         /\ total_input' = total_input + Get(usage, "input_tokens")
                         /\ total_output' = total_output + Get(usage, "output_tokens")
                         /\ total_cache_creation' = total_cache_creation
                                + Get(usage, "cache_creation_input_tokens")
                         /\ total_cache_read' = total_cache_read
                                + Get(usage, "cache_read_input_tokens")
                    ELSE UNCHANGED <<total_input, total_output, total_cache_creation,
                                     total_cache_read, message_count>>
    /\ UNCHANGED <<claude_dir_exists, files_left, n_files, session_count, stats_json,
                   cache_consulted, claude_result, messages_at_open, file_content>>

\* the file is exhausted: the with block ends, next file
CloseFile ==
    /\ UNCHANGED <<gvars, xvars>>
    /\ cpc = "lines" /\ f = <<>>
    /\ cpc' = "scan"
    /\ file_content' = <<>> /\ messages_at_open' = 0
    /\ UNCHANGED <<claude_dir_exists, files_left, n_files, f, total_input,
                   total_output, total_cache_creation, total_cache_read,
                   session_count, message_count, stats_json, cache_consulted,
                   claude_result>>

\* except Exception: continue -- the rest of the file is left unread
FileExcept ==
    /\ UNCHANGED <<gvars, xvars>>
    /\ cpc = "except"
    /\ cpc' = "scan" /\ f' = <<>>
    /\ file_content' = <<>> /\ messages_at_open' = 0
    /\ UNCHANGED <<claude_dir_exists, files_left, n_files, total_input,
                   total_output, total_cache_creation, total_cache_read,
                   session_count, message_count, stats_json, cache_consulted,
                   claude_result>>

\* Mutant of ConsultsCache: falls back when no message was counted
ConsultsCacheNoMessages == message_count = 0

\* if session_count == 0: the cache file is looked at
ConsultsCache == session_count = 0

\* cache_file.exists(), json.load succeeds and 'claude' in cached
CacheHasClaude == stats_json.file = "json" /\ stats_json.has_claude

\* lines 73-103: cache fallback, else the record computed from the counters
ReturnClaude ==
    /\ UNCHANGED <<gvars, xvars>>
    /\ cpc = "scan" /\ (~claude_dir_exists \/ files_left = 0)
    /\ cpc' = "returned"
    /\ cache_consulted' = ConsultsCache
    /\ claude_result' =
         IF ConsultsCache /\ CacheHasClaude
         THEN stats_json.claude
         ELSE ClaudeRecord(total_input, total_output, total_cache_creation,
                           total_cache_read, session_count, message_count,
                           CostEstimate(total_input, total_output,
                                        total_cache_creation, total_cache_read))
    /\ UNCHANGED <<claude_dir_exists, files_left, n_files, f, total_input,
                   total_output, total_cache_creation, total_cache_read,
                   session_count, message_count, stats_json,
                   messages_at_open, file_content>>

----------------------------------------------------------------------------
\* Remote responses and records of get_github_stats

\* Strings that are compared ignoring case are sequences of characters
Username == <<"s", "-", "b", "-", "e", "-", "n", "-", "s", "-", "o", "-", "n">>
UserUpper == <<"S", "-", "B", "-", "E", "-", "N", "-", "S", "-", "O", "-", "N">>
Octocat == <<"o", "c", "t", "o", "c", "a", "t">>

\* str.lower(), on the letters that occur
LowerChar(c) ==
    CASE c = "S" -> "s" [] c = "B" -> "b" [] c = "E" -> "e"
      [] c = "N" -> "n" [] c = "O" -> "o" [] OTHER -> c

Lower(str) == [i \in 1..Len(str) |-> LowerChar(str[i])]

\* A contributor entry: author is null when ~has_author
Entry(h, l, w) == [has_author |-> h, login |-> l, weeks |-> w]

ContribLists ==
    { <<>>,
      <<Entry(TRUE, Octocat, <<[a |-> 5, d |-> 1]>>)>>,
      <<Entry(TRUE, Octocat, <<[a |-> 4, d |-> 4]>>),
        Entry(TRUE, UserUpper, <<[a |-> 1, d |-> 0], [a |-> 2]>>)>>,
      <<Entry(FALSE, <<>>, <<[a |-> 9, d |-> 9]>>),
        Entry(TRUE, Username, <<[a |-> 0, d |-> 3]>>)>> }

\* run_gh_api('repos/.../stats/contributors'): None, parsed JSON that is no
\* list, or a list of contributor entries
StatsResponses ==
    { [shape |-> "none", contributors |-> <<>>],
      [shape |-> "nonlist", contributors |-> <<>>] }
    \cup { [shape |-> "list", contributors |-> c] : c \in ContribLists }

\* run_gh_api('user/repos?...affiliation=owner'): None, no list, or the list
\* of the repositories' fork flags
LocListings ==
    { [shape |-> "none", forks |-> <<>>], [shape |-> "nonlist", forks |-> <<>>] }
    \cup { [shape |-> "list", forks |-> fl] :
             fl \in UNION {[1..n -> BOOLEAN] : n \in 0..MaxRepos} }

\* run_gh_graphql(id_query): None, errors without 'data', errors with
\* data.user null, or the user's id
IdResponses == {"none", "errors", "null_user", "ok"}

\* run_gh_api('user/repos?...'): None or a list of that length
RepoListings == { [ok |-> FALSE, len |-> 0] }
                \cup { [ok |-> TRUE, len |-> n] : n \in 0..MaxRepos }

\* run_gh_graphql(repo_query): None, errors without 'data', data.repository
\* null, defaultBranchRef null, or a history with its totalCount
CommitResponses ==
    { [shape |-> sh, totalCount |-> 0] :
        sh \in {"none", "errors", "null_repo", "no_branch"} }
    \cup { [shape |-> "ok", totalCount |-> c] : c \in {1, 2} }

Node(n) == [null |-> FALSE, stargazerCount |-> n]
NullNode == [null |-> TRUE, stargazerCount |-> 0]

MkData(sh, tc, ns, fo, fg, co, pr, is) ==
    [shape |-> sh, totalCount |-> tc, nodes |-> ns, followers |-> fo,
     following |-> fg, contributed |-> co, prs |-> pr, issues |-> is]

\* run_gh_graphql(query): None, an error-shaped response, or the user data
NoData == MkData("none", 0, <<>>, 0, 0, 0, 0, 0)
ErrorData == MkData("errors", 0, <<>>, 0, 0, 0, 0, 0)
PrimaryOkSet == { MkData("ok", 3, <<Node(2), NullNode, Node(1)>>, 4, 1, 2, 5, 1),
                  MkData("ok", 0, <<>>, 0, 0, 0, 0, 0) }

\* the record of lines 273-284 and 322-323: no 'loc_total' key
ZeroGithub ==
    [repos |-> 0, commits |-> 0, stars |-> 0, followers |-> 0, following |-> 0,
     loc_added |-> 0, loc_deleted |-> 0, contributed_repos |-> 0, prs |-> 0,
     issues |-> 0]

\* a remote record saved by an earlier run
CachedGithub ==
    [repos |-> 7, commits |-> 40, stars |-> 3, followers |-> 2, following |-> 1,
     contributed_repos |-> 4, prs |-> 6, issues |-> 5, loc_added |-> 10,
     loc_deleted |-> 4, loc_total |-> 6]

\* cache/github_stats.json: absent, present but not parseable, or a record
GithubJsonStates ==
    { [file |-> "absent", record |-> ZeroGithub],
      [file |-> "corrupt", record |-> ZeroGithub],
      [file |-> "json", record |-> CachedGithub] }

----------------------------------------------------------------------------
\* get_loc_stats

RECURSIVE SumWeeks(_, _)
\* for week in contrib.get('weeks', []): total += week.get(key, 0)
SumWeeks(weeks, key) ==
    IF weeks = <<>> THEN 0 ELSE Get(Head(weeks), key) + SumWeeks(Tail(weeks), key)

\* Mutant of LoginMatches: the logins are compared as they are
LoginMatchesExact(contrib, username) ==
    contrib.has_author /\ contrib.login = username

\* author and author.get('login', '').lower() == username.lower()
LoginMatches(contrib, username) ==
    contrib.has_author /\ Lower(contrib.login) = Lower(username)

RECURSIVE UserWeeks(_, _)
\* the weeks of the first entry that matches (the loop breaks there)
UserWeeks(contributors, username) ==
    IF contributors = <<>> THEN <<>>
    ELSE IF LoginMatches(Head(contributors), username)
         THEN Head(contributors).weeks
         ELSE UserWeeks(Tail(contributors), username)

MaxAttempts == 3

\* Mutant of AttemptsLeft: one attempt too many
AttemptsLeftOffByOne(att) == att + 1 <= MaxAttempts

\* for attempt in range(3): another iteration follows this one
AttemptsLeft(att) == att + 1 < MaxAttempts

\* Mutant of LocStats: a total that is never negative
LocStatsClamped(added, deleted) ==
    [loc_added |-> added, loc_deleted |-> deleted,
     loc_total |-> IF added >= deleted THEN added - deleted ELSE 0]

\* the record of lines 177-181
LocStats(added, deleted) ==
    [loc_added |-> added, loc_deleted |-> deleted, loc_total |-> added - deleted]

----------------------------------------------------------------------------
\* get_all_commits

\* lines 250-255: what one repository's response adds to total_commits
CommitsOf(commit_data) ==
    IF commit_data.shape \in {"none", "errors"} THEN 0   \* not commit_data, no 'data'
    ELSE IF commit_data.shape = "null_repo" THEN 0       \* repo_data is None
    ELSE IF commit_data.shape = "no_branch" THEN 0       \* defaultBranchRef is None
    ELSE commit_data.totalCount

\* Mutant of CommitLoopDone: the loop is left at the first repository that
\* adds nothing
CommitLoopDoneOnFailure(commit_data, done, n) ==
    done = n \/ commit_data.shape # "ok"

\* for repo in repos_data: the loop ends after the last repository only
CommitLoopDone(commit_data, done, n) == done = n

----------------------------------------------------------------------------
\* get_github_stats

RECURSIVE SumStars(_)
\* sum(node['stargazerCount'] for node in repos['nodes'] if node)
SumStars(nodes) ==
    IF nodes = <<>> THEN 0
    ELSE (IF Head(nodes).null THEN 0 ELSE Head(nodes).stargazerCount)
         + SumStars(Tail(nodes))

\* the record of lines 345-357
FreshRecord(d, commits, loc) ==
    [repos |-> d.totalCount, commits |-> commits, stars |-> SumStars(d.nodes),
     followers |-> d.followers, following |-> d.following,
     contributed_repos |-> d.contributed, prs |-> d.prs, issues |-> d.issues,
     loc_added |-> loc.loc_added, loc_deleted |-> loc.loc_deleted,
     loc_total |-> loc.loc_total]

GithubInit ==
    /\ gpc = "probe"
    /\ github_stats_json \in GithubJsonStates
    /\ degraded = "no"
    /\ data = NoData
    /\ n_repos = 0 /\ commit_log = <<>> /\ total_commits = 0
    /\ repos = <<>> /\ repo_i = 0 /\ attempt = 0 /\ stats_log = <<>>
    /\ total_added = 0 /\ total_deleted = 0
    /\ loc_stats = LocStats(0, 0)
    /\ github_result = ZeroGithub
    /\ exc = "none"

\* lines 269-284 and 318-323: the cached record if the file exists (json.load
\* is not guarded), else the zero record
FallBackToCache ==
    CASE github_stats_json.file = "absent" ->
            /\ github_result' = ZeroGithub /\ gpc' = "returned" /\ exc' = "none"
      [] github_stats_json.file = "corrupt" ->
            /\ gpc' = "raised" /\ exc' = "JSONDecodeError"
            /\ UNCHANGED github_result
      [] OTHER ->
            /\ github_result' = github_stats_json.record
            /\ gpc' = "returned" /\ exc' = "none"

\* gh auth status succeeds
ProbeOk ==
    /\ UNCHANGED <<cvars, xvars>>
    /\ gpc = "probe"
    /\ gpc' = "primary"
    /\ UNCHANGED <<github_stats_json, degraded, data, n_repos, commit_log,
                   total_commits, repos, repo_i, attempt, stats_log, total_added,
                   total_deleted, loc_stats, github_result, exc>>

\* gh is missing or gh auth status returns non-zero
ProbeFails ==
    /\ UNCHANGED <<cvars, xvars>>
    /\ gpc = "probe"
    /\ degraded' = "probe"
    /\ FallBackToCache
    /\ UNCHANGED <<github_stats_json, data, n_repos, commit_log, total_commits,
                   repos, repo_i, attempt, stats_log, total_added, total_deleted,
                   loc_stats>>

\* if not data or 'errors' in data
PrimaryFails ==
    /\ UNCHANGED <<cvars, xvars>>
    /\ gpc = "primary"
    /\ \E d \in {NoData, ErrorData} : data' = d
    /\ degraded' = "primary"
    /\ FallBackToCache
    /\ UNCHANGED <<github_stats_json, n_repos, commit_log, total_commits, repos,
                   repo_i, attempt, stats_log, total_added, total_deleted,
                   loc_stats>>

PrimaryOk ==
    /\ UNCHANGED <<cvars, xvars>>
    /\ gpc = "primary"
    /\ \E d \in PrimaryOkSet : data' = d
    /\ gpc' = "id_query"
    /\ UNCHANGED <<github_stats_json, degraded, n_repos, commit_log,
                   total_commits, repos, repo_i, attempt, stats_log, total_added,
                   total_deleted, loc_stats, github_result, exc>>

\* get_all_commits, lines 213-216: the identifier query
IdQuery ==
    /\ UNCHANGED <<cvars, xvars>>
    /\ gpc = "id_query"
    /\ \E id_data \in IdResponses :
         CASE id_data \in {"none", "errors"} ->     \* return 0
                 /\ gpc' = "commits_returned" /\ total_commits' = 0
                 /\ UNCHANGED exc
           [] id_data = "null_user" ->              \* None['id']
                 /\ gpc' = "raised" /\ exc' = "TypeError"
                 /\ UNCHANGED total_commits
           [] OTHER ->
                 /\ gpc' = "repos_list" /\ total_commits' = 0
                 /\ UNCHANGED exc
    /\ UNCHANGED <<github_stats_json, degraded, data, n_repos, commit_log, repos,
                   repo_i, attempt, stats_log, total_added, total_deleted,
                   loc_stats, github_result>>

\* get_all_commits, lines 236-238: the repository listing
ListRepos ==
    /\ UNCHANGED <<cvars, xvars>>
    /\ gpc = "repos_list"
    /\ \E repos_data \in RepoListings :
         IF ~repos_data.ok \/ repos_data.len = 0
         THEN /\ gpc' = "commits_returned" /\ n_repos' = 0
         ELSE /\ gpc' = "commit_loop" /\ n_repos' = repos_data.len
    /\ UNCHANGED <<github_stats_json, degraded, data, commit_log, total_commits,
                   repos, repo_i, attempt, stats_log, total_added, total_deleted,
                   loc_stats, github_result, exc>>

\* get_all_commits, lines 240-255: one iteration of the repository loop
QueryRepo ==
    /\ UNCHANGED <<cvars, xvars>>
    /\ gpc = "commit_loop"
    /\ \E commit_data \in CommitResponses :
         /\ commit_log' = Append(commit_log, commit_data)
         /\ total_commits' = total_commits + CommitsOf(commit_data)
         /\ gpc' = IF CommitLoopDone(commit_data, Len(commit_log) + 1, n_repos)
                   THEN "commits_returned" ELSE "commit_loop"
    /\ UNCHANGED <<github_stats_json, degraded, data, n_repos, repos, repo_i,
                   attempt, stats_log, total_added, total_deleted, loc_stats,
                   github_result, exc>>

\* line 336: get_all_commits has returned, its locals are gone
CommitsReturned ==
    /\ UNCHANGED <<cvars, xvars>>
    /\ gpc = "commits_returned"
    /\ gpc' = "loc_list"
    /\ n_repos' = 0 /\ commit_log' = <<>>
    /\ UNCHANGED <<github_stats_json, degraded, data, total_commits, repos,
                   repo_i, attempt, stats_log, total_added, total_deleted,
                   loc_stats, github_result, exc>>

\* get_loc_stats, lines 140-147: the listing and the early return
LocList ==
    /\ UNCHANGED <<cvars, xvars>>
    /\ gpc = "loc_list"
    /\ total_added' = 0 /\ total_deleted' = 0
    /\ \E listing \in LocListings :
         IF listing.shape # "list" \/ listing.forks = <<>>
         THEN /\ loc_stats' = [loc_added |-> 0, loc_deleted |-> 0, loc_total |-> 0]
              /\ gpc' = "loc_returned"
              /\ UNCHANGED <<repos, repo_i, attempt, stats_log>>
         ELSE /\ repos' = listing.forks
              /\ repo_i' = 1 /\ attempt' = 0
              /\ stats_log' = [i \in 1..Len(listing.forks) |-> <<>>]
              /\ gpc' = "loc_loop"
              /\ UNCHANGED loc_stats
    /\ UNCHANGED <<github_stats_json, degraded, data, n_repos, commit_log,
                   total_commits, github_result, exc>>

\* if repo.get('fork'): continue
LocSkipFork ==
    /\ UNCHANGED <<cvars, xvars>>
    /\ gpc = "loc_loop" /\ repo_i <= Len(repos) /\ repos[repo_i]
    /\ repo_i' = repo_i + 1 /\ attempt' = 0
    /\ UNCHANGED <<gpc, github_stats_json, degraded, data, n_repos, commit_log,
                   total_commits, repos, stats_log, total_added, total_deleted,
                   loc_stats, github_result, exc>>

\* lines 156-172: one iteration of the attempt loop of the current repository
LocRequest ==
    /\ UNCHANGED <<cvars, xvars>>
    /\ gpc = "loc_loop" /\ repo_i <= Len(repos) /\ ~repos[repo_i]
    /\ \E contributors \in StatsResponses :
         /\ stats_log' = [stats_log EXCEPT ![repo_i] = Append(@, contributors)]
         /\ CASE contributors.shape = "none" ->          \* sleep(1); continue
                   /\ IF AttemptsLeft(attempt)
                      THEN attempt' = attempt + 1 /\ repo_i' = repo_i
                      ELSE attempt' = 0 /\ repo_i' = repo_i + 1
                   /\ UNCHANGED <<total_added, total_deleted>>
              [] contributors.shape = "nonlist" ->       \* break
                   /\ attempt' = 0 /\ repo_i' = repo_i + 1
                   /\ UNCHANGED <<total_added, total_deleted>>
              [] OTHER ->
                   LET weeks == UserWeeks(contributors.contributors, Username)
                   IN /\ total_added' = total_added + SumWeeks(weeks, "a")
                      /\ total_deleted' = total_deleted + SumWeeks(weeks, "d")
                      /\ attempt' = 0 /\ repo_i' = repo_i + 1
    /\ UNCHANGED <<gpc, github_stats_json, degraded, data, n_repos, commit_log,
                   total_commits, repos, loc_stats, github_result, exc>>

\* lines 177-181: the repository loop is over
LocReturn ==
    /\ UNCHANGED <<cvars, xvars>>
    /\ gpc = "loc_loop" /\ repo_i > Len(repos)
    /\ loc_stats' = LocStats(total_added, total_deleted)
    /\ gpc' = "loc_returned"
    /\ UNCHANGED <<github_stats_json, degraded, data, n_repos, commit_log,
                   total_commits, repos, repo_i, attempt, stats_log, total_added,
                   total_deleted, github_result, exc>>

\* lines 343-357: the fresh record
ReturnFresh ==
    /\ UNCHANGED <<cvars, xvars>>
    /\ gpc = "loc_returned"
    /\ github_result' = FreshRecord(data, total_commits, loc_stats)
    /\ gpc' = "returned"
    /\ UNCHANGED <<github_stats_json, degraded, data, n_repos, commit_log,
                   total_commits, repos, repo_i, attempt, stats_log, total_added,
                   total_deleted, loc_stats, exc>>

----------------------------------------------------------------------------
\* save_stats_cache and the reads of the two cache files

\* the locals of get_claude_stats: cvars without the file cache/stats.json
claude_locals == <<cpc, claude_dir_exists, files_left, n_files, f, total_input,
                   total_output, total_cache_creation, total_cache_read,
                   session_count, message_count, cache_consulted,
                   claude_result, messages_at_open, file_content>>

\* the locals of get_github_stats: gvars without cache/github_stats.json
github_locals == <<gpc, degraded, data, n_repos, commit_log, total_commits,
                   repos, repo_i, attempt, stats_log, total_added,
                   total_deleted, loc_stats, github_result, exc>>

\* a remote record whose deletions outweigh its additions
NegativeGithub ==
    [repos |-> 1, commits |-> 9, stars |-> 0, followers |-> 0, following |-> 0,
     contributed_repos |-> 1, prs |-> 0, issues |-> 0, loc_added |-> 10,
     loc_deleted |-> 40, loc_total |-> -30]

\* records the callers of save_stats_cache pass to it
SavedClaude == CachedClaude \cup {NoClaude}
SavedGithub == {ZeroGithub, CachedGithub, NegativeGithub}

\* Mutant of JsonDump: members whose value is zero are left out
RECURSIVE JsonDumpNonZero(_)
JsonDumpNonZero(obj) ==
    IF DOMAIN obj = {} THEN <<>>
    ELSE LET k == CHOOSE key \in DOMAIN obj : TRUE
             rest == JsonDumpNonZero([j \in DOMAIN obj \ {k} |-> obj[j]])
         IN IF obj[k] = 0 THEN rest ELSE <<<<k, obj[k]>>>> \o rest

\* json.dump of a dict of numbers: the text holds one key/value member per
\* key of the dict
RECURSIVE JsonDump(_)
JsonDump(obj) ==
    IF DOMAIN obj = {} THEN <<>>
    ELSE LET k == CHOOSE key \in DOMAIN obj : TRUE
         IN <<<<k, obj[k]>>>> \o JsonDump([j \in DOMAIN obj \ {k} |-> obj[j]])

\* json.load: the dict of the members of the text; of two members with one
\* key the later one stays
JsonLoad(text) ==
    [k \in {text[i][1] : i \in DOMAIN text} |->
        text[CHOOSE i \in DOMAIN text :
                /\ text[i][1] = k
                /\ \A j \in DOMAIN text : j > i => text[j][1] # k][2]]

\* lines 360-373: cache_data with its 'claude' member is written to
\* cache/stats.json
SaveStatsJson ==
    /\ kpc = "idle" /\ cpc = "idle" /\ gpc = "idle" /\ rpc = "idle"
    /\ saves < MaxSaves
    /\ \E claude_stats \in SavedClaude, github_stats \in SavedGithub :
         /\ save_claude' = claude_stats
         /\ save_github' = github_stats
         /\ stats_json' = [file |-> "json", has_claude |-> TRUE,
                           claude |-> JsonLoad(JsonDump(claude_stats))]
    /\ kpc' = "write_github"
    /\ UNCHANGED <<claude_locals, gvars, saves, last_claude, last_github, rpc,
                   render_github, lvars, nvars, svars>>

\* lines 375-376: github_stats is written to cache/github_stats.json and the
\* call ends
SaveGithubJson ==
    /\ kpc = "write_github"
    /\ github_stats_json' = [file |-> "json",
                             record |-> JsonLoad(JsonDump(save_github))]
    /\ kpc' = "idle"
    /\ saves' = saves + 1
    /\ last_claude' = save_claude
    /\ last_github' = save_github
    /\ UNCHANGED <<cvars, github_locals, save_claude, save_github, rpc,
                   render_github, lvars, nvars, svars>>

\* get_claude_stats is called where the log tree holds no *.jsonl file
CallClaude ==
    /\ kpc = "idle" /\ cpc = "idle"
    /\ cpc' = "scan"
    /\ claude_dir_exists' \in BOOLEAN
    /\ UNCHANGED <<files_left, n_files, f, total_input, total_output,
                   total_cache_creation, total_cache_read, session_count,
                   message_count, stats_json, cache_consulted, claude_result,
                   messages_at_open, file_content>>
    /\ UNCHANGED <<gvars, xvars>>

\* get_github_stats is called
CallGithub ==
    /\ kpc = "idle" /\ gpc = "idle"
    /\ gpc' = "probe"
    /\ UNCHANGED <<github_stats_json, degraded, data, n_repos, commit_log,
                   total_commits, repos, repo_i, attempt, stats_log, total_added,
                   total_deleted, loc_stats, github_result, exc>>
    /\ UNCHANGED <<cvars, xvars>>

\* render_nfo(fetch_github=False), lines 397-405: the stored remote record if
\* the file exists (json.load is not guarded), else the zero record
RenderNoFetch ==
    /\ kpc = "idle" /\ rpc = "idle"
    /\ CASE github_stats_json.file = "absent" ->
              rpc' = "loaded" /\ render_github' = ZeroGithub
         [] github_stats_json.file = "corrupt" ->
              rpc' = "raised" /\ UNCHANGED render_github
         [] OTHER ->
              rpc' = "loaded" /\ render_github' = github_stats_json.record
    /\ UNCHANGED <<cvars, gvars, kpc, save_claude, save_github, saves,
                   last_claude, last_github, lvars,
                   nvars, svars>>

\* the process ends: the locals of its calls are gone, the files stay
EndRun ==
    /\ kpc = "idle"
    /\ cpc \in {"idle", "returned"}
    /\ gpc \in {"idle", "returned", "raised"}
    /\ cpc # "idle" \/ gpc # "idle" \/ rpc # "idle"
    /\ cpc' = "idle" /\ claude_dir_exists' = FALSE
    /\ cache_consulted' = FALSE /\ claude_result' = NoClaude
    /\ gpc' = "idle" /\ degraded' = "no" /\ data' = NoData
    /\ github_result' = ZeroGithub /\ exc' = "none"
    /\ rpc' = "idle" /\ render_github' = ZeroGithub
    /\ UNCHANGED <<files_left, n_files, f, total_input, total_output,
                   total_cache_creation, total_cache_read, session_count,
                   message_count, stats_json, messages_at_open, file_content>>
    /\ UNCHANGED <<github_stats_json, n_repos, commit_log, total_commits, repos,
                   repo_i, attempt, stats_log, total_added, total_deleted,
                   loc_stats>>
    /\ UNCHANGED <<kpc, save_claude, save_github, saves, last_claude,
                   last_github, lvars, nvars, svars>>

----------------------------------------------------------------------------
\* Strings are sequences of characters; "ESC" is the character \033

\* c * n of Python: the empty string when n <= 0
Repeat(c, n) == [i \in 1..n |-> c]

\* str.find(old): the index of the first occurrence of old, 0 when there is
\* none
Find(s, old) ==
    LET at == {i \in 1..(Len(s) - Len(old) + 1) :
                  SubSeq(s, i, i + Len(old) - 1) = old}
    IN IF at = {} THEN 0 ELSE CHOOSE i \in at : \A j \in at : i <= j

\* str.replace(old, new): the occurrences of old from left to right, none of
\* them overlapping an earlier one
RECURSIVE Replace(_, _, _)
Replace(s, old, new) ==
    LET i == Find(s, old)
    IN IF i = 0 THEN s
       ELSE SubSeq(s, 1, i - 1) \o new
            \o Replace(SubSeq(s, i + Len(old), Len(s)), old, new)

\* class Colors, preview.py lines 22-35
Colors ==
    [ RESET   |-> <<"ESC", "[", "0", "m">>,
      BOLD    |-> <<"ESC", "[", "1", "m">>,
      DIM     |-> <<"ESC", "[", "2", "m">>,
      CYAN    |-> <<"ESC", "[", "9", "6", "m">>,
      BLUE    |-> <<"ESC", "[", "9", "4", "m">>,
      MAGENTA |-> <<"ESC", "[", "9", "5", "m">>,
      GREEN   |-> <<"ESC", "[", "9", "2", "m">>,
      RED     |-> <<"ESC", "[", "9", "1", "m">>,
      YELLOW  |-> <<"ESC", "[", "9", "3", "m">>,
      WHITE   |-> <<"ESC", "[", "9", "7", "m">>,
      GRAY    |-> <<"ESC", "[", "9", "0", "m">> ]

\* preview.py line 408
width == 98

\* generate_svg.py line 55
content_width == 90

\* Mutant of SvgDots: the colon of key_str is not counted
SvgDotsKeyOnly(k, val_str) ==
    Repeat(".", content_width - Len(k) - Len(val_str) - 2)

\* generate_svg.stat_line, line 61: dots
SvgDots(k, val_str) ==
    LET key_str == k \o <<":">>
    IN Repeat(".", content_width - Len(key_str) - Len(val_str) - 2)

\* generate_svg.stat_line, lines 58-62
SvgStatLine(k, val_str) ==
    (k \o <<":">>) \o <<" ">> \o SvgDots(k, val_str) \o <<" ">> \o val_str

\* render_nfo.stat_line, lines 437-441: '.' * dot_count
NfoDots(k, val_str) ==
    LET key_len == Len(k)
        val_len == Len(val_str)
        dot_count == width - 8 - key_len - val_len
    IN Repeat(".", dot_count)

\* render_nfo.stat_line, lines 435-442: the content handed to line
NfoContent(k, val_str) ==
    LET key_str == Colors.YELLOW \o k \o Colors.RESET
        val_str_c == Colors.WHITE \o val_str \o Colors.RESET
        dots_str == Colors.GRAY \o NfoDots(k, val_str) \o Colors.RESET
    IN key_str \o <<":", " ">> \o dots_str \o <<" ">> \o val_str_c

\* render_nfo.line, lines 422-425: the length without the colour codes
VisibleLen(content) ==
    LET c == Colors
    IN Len(Replace(Replace(Replace(Replace(Replace(Replace(Replace(Replace(
           Replace(Replace(Replace(content, c.RESET, <<>>), c.CYAN, <<>>),
           c.BLUE, <<>>), c.MAGENTA, <<>>), c.GREEN, <<>>), c.RED, <<>>),
           c.YELLOW, <<>>), c.WHITE, <<>>), c.GRAY, <<>>), c.BOLD, <<>>),
           c.DIM, <<>>))

\* render_nfo.line, line 426
Padding(content) == width - 4 - VisibleLen(content)

\* render_nfo.line with align="left", line 431; "V" is the border character
\* of line 412, one character wide
NfoLine(content) ==
    Colors.CYAN \o <<"V">> \o Colors.RESET \o <<" ">> \o content
        \o Repeat(" ", Padding(content)) \o <<" ">>
        \o Colors.CYAN \o <<"V">> \o Colors.RESET

\* generate_svg, line 241
LocKey == <<"L", "i", "n", "e", "s", " ", "o", "f", " ", "C", "o", "d", "e", ":">>

\* generate_svg, lines 242-243: the dots of the lines-of-code row
LocDots(loc_value) ==
    LET key_str == LocKey
        dots_len == content_width - Len(key_str) - Len(loc_value) - 2
    IN Repeat(".", IF dots_len >= 3 THEN dots_len ELSE 3)

\* keys of the rows of the two renderers, the empty key and a long one
Sessions == <<"S", "e", "s", "s", "i", "o", "n", "s">>
LayoutKeys ==
    { Sessions, <<"S", "h", "e", "l", "l">>, <<"E", "s", "t", ".", " ", "A", "P", "I", " ", "C", "o", "s", "t", " ", "S", "a", "v", "e", "d">>, <<"R", "e", "p", "o", "s", "i", "t", "o", "r", "i", "e", "s">>, <<>>, Repeat("k", 40) }

\* values: '42' and strings of every length up to MaxValueLen
FortyTwo == <<"4", "2">>
LayoutValues == {FortyTwo} \cup {Repeat("9", n) : n \in 0..MaxValueLen}

LayoutInit ==
    /\ row_key \in LayoutKeys
    /\ row_value \in LayoutValues
    /\ rendered = {}
    /\ svg_dots = <<>> /\ svg_row = <<>>
    /\ nfo_dots = <<>> /\ nfo_visible_len = 0 /\ nfo_padding = 0
    /\ nfo_row = <<>>
    /\ loc_dots = <<>>

\* generate_svg.stat_line(key, value)
SvgRow ==
    /\ "svg" \notin rendered
    /\ rendered' = rendered \cup {"svg"}
    /\ svg_dots' = SvgDots(row_key, row_value)
    /\ svg_row' = SvgStatLine(row_key, row_value)
    /\ UNCHANGED <<row_key, row_value, nfo_dots, nfo_visible_len, nfo_padding, nfo_row,
                   loc_dots>>
    /\ UNCHANGED <<cvars, gvars, kvars, nvars, svars>>

\* render_nfo.stat_line(key, value)
NfoRow ==
    /\ "nfo" \notin rendered
    /\ rendered' = rendered \cup {"nfo"}
    /\ nfo_dots' = NfoDots(row_key, row_value)
    /\ nfo_visible_len' = VisibleLen(NfoContent(row_key, row_value))
    /\ nfo_padding' = Padding(NfoContent(row_key, row_value))
    /\ nfo_row' = NfoLine(NfoContent(row_key, row_value))
    /\ UNCHANGED <<row_key, row_value, svg_dots, svg_row, loc_dots>>
    /\ UNCHANGED <<cvars, gvars, kvars, nvars, svars>>

\* generate_svg, lines 240-243: the row of a lines-of-code value
LocRow ==
    /\ "loc" \notin rendered
    /\ rendered' = rendered \cup {"loc"}
    /\ loc_dots' = LocDots(row_value)
    /\ UNCHANGED <<row_key, row_value, svg_dots, svg_row, nfo_dots, nfo_visible_len,
                   nfo_padding, nfo_row>>
    /\ UNCHANGED <<cvars, gvars, kvars, nvars, svars>>

----------------------------------------------------------------------------
\* format_number and the number formats of Python

Digits == <<"0", "1", "2", "3", "4", "5", "6", "7", "8", "9">>

\* str(n) of a non-negative int
RECURSIVE StrNat(_)
StrNat(n) ==
    IF n < 10 THEN <<Digits[n + 1]>>
    ELSE StrNat(n \div 10) \o <<Digits[(n % 10) + 1]>>

\* str(n) of an int
Str(n) == IF n < 0 THEN <<"-">> \o StrNat(0 - n) ELSE StrNat(n)

\* The tenths that format(n / unit, '.1f') can show.  n / unit is the double
\* nearest to the quotient and the format rounds that double to the nearest
\* tenth: below a tie down, above it up.  A quotient that lies on a tie and
\* is a double itself (its fraction is .25 or .75) goes to the even tenth;
\* any other quotient on a tie is no double, and the double nearest to it
\* lies on one side or the other.
Tenths(n, unit) ==
    LET q == (n * 10) \div unit
        r == (n * 10) % unit
    IN IF 2 * r < unit THEN {q}
       ELSE IF 2 * r > unit THEN {q + 1}
       ELSE IF (4 * n) % unit = 0 THEN {IF q % 2 = 0 THEN q ELSE q + 1}
       ELSE {q, q + 1}

\* format(x, '.1f') of a value of t tenths
Fixed1(t) == StrNat(t \div 10) \o <<".">> \o StrNat(t % 10)

\* Mutant of FormatNumber: one thousand is still written in full
FormatNumberAbove(n) ==
    IF n >= 1000000 THEN {Fixed1(t) \o <<"M">> : t \in Tenths(n, 1000000)}
    ELSE IF n > 1000 THEN {Fixed1(t) \o <<"K">> : t \in Tenths(n, 1000)}
    ELSE {Str(n)}

\* format_number, preview.py lines 379-385: the strings the call can return
FormatNumber(n) ==
    IF n >= 1000000 THEN {Fixed1(t) \o <<"M">> : t \in Tenths(n, 1000000)}
    ELSE IF n >= 1000 THEN {Fixed1(t) \o <<"K">> : t \in Tenths(n, 1000)}
    ELSE {Str(n)}

\* 10 ** e
RECURSIVE Pow10(_)
Pow10(e) == IF e = 0 THEN 1 ELSE 10 * Pow10(e - 1)

\* counts handed to format_number: round numbers and their neighbours
NumberInputs ==
    { x \in { m * Pow10(e) + d : m \in 0..MaxMantissa, e \in 0..6,
                                 d \in {0 - 50, 0 - 1, 0, 50} } : x >= 0 }

FormatInit == num \in NumberInputs /\ formatted = <<>>

\* one call format_number(num)
format_number ==
    /\ formatted = <<>>
    /\ formatted' \in FormatNumber(num)
    /\ UNCHANGED num
    /\ UNCHANGED <<cvars, gvars, kvars, lvars, svars>>

----------------------------------------------------------------------------
\* generate_svg and the rows of render_nfo

\* format(n, ',') of a non-negative int: groups of three digits
RECURSIVE CommasNat(_)
CommasNat(n) ==
    IF n < 1000 THEN StrNat(n)
    ELSE CommasNat(n \div 1000) \o <<",">>
         \o <<Digits[((n % 1000) \div 100) + 1], Digits[((n % 100) \div 10) + 1],
              Digits[(n % 10) + 1]>>

\* format(n, ',') of an int
Commas(n) == IF n < 0 THEN <<"-">> \o CommasNat(0 - n) ELSE CommasNat(n)

\* The multiples of unit that a float format can round x to: the nearest
\* one; a value half-way is a sum of rounded quotients and may lie on either
\* side
Nearest(x, unit) ==
    LET q == x \div unit
        r == x % unit
    IN IF 2 * r < unit THEN {q}
       ELSE IF 2 * r > unit THEN {q + 1}
       ELSE {q, q + 1}

\* f"${cost:,.0f}", generate_svg.py line 159; cost in millionths
Money0(cost) == { <<"$">> \o Commas(q) : q \in Nearest(cost, 1000000) }

\* f"${cost:,.2f}", preview.py line 512; cost in millionths
Money2(cost) ==
    { <<"$">> \o Commas(c \div 100) \o <<".">>
              \o <<Digits[((c % 100) \div 10) + 1], Digits[(c % 10) + 1]>> :
      c \in Nearest(cost, 10000) }

\* Mutant of escape_xml: the ampersand is replaced last
EscapeXmlAmpLast(str) ==
    Replace(Replace(Replace(str, <<"<">>, <<"&", "l", "t", ";">>), <<">">>, <<"&", "g", "t", ";">>),
            <<"&">>, <<"&", "a", "m", "p", ";">>)

\* escape_xml, generate_svg.py lines 17-19
escape_xml(str) ==
    Replace(Replace(Replace(str, <<"&">>, <<"&", "a", "m", "p", ";">>), <<"<">>, <<"&", "l", "t", ";">>),
            <<">">>, <<"&", "g", "t", ";">>)

\* generate_svg.py lines 52-54
line_height_tight == 13
line_height_normal == 20
y_start == 30

\* Mutant of HeightAdvance: a blank row counts as a normal one
HeightAdvanceNoBlank(spacing) ==
    IF spacing = "tight" THEN line_height_tight ELSE line_height_normal

\* lines 200-206: what an entry adds to total_height
HeightAdvance(spacing) ==
    IF spacing = "tight" THEN line_height_tight
    ELSE IF spacing = "blank" THEN line_height_normal \div 2
    ELSE line_height_normal

\* lines 265-271: what an entry adds to y
YAdvance(spacing) ==
    IF spacing = "tight" THEN line_height_tight
    ELSE IF spacing = "blank" THEN line_height_normal \div 2
    ELSE line_height_normal

\* an entry of lines
Row(text, color, spacing) == [text |-> text, color |-> color, spacing |-> spacing]

Blank == Row(<<>>, "text", "blank")

\* a row of glyphs of the artwork or of a table header, abbreviated
Glyphs == <<"#", "#", "#", "#">>

LocMark == <<"_", "_", "L", "O", "C", "_", "_">>

\* lines 185-189: the entry of the lines-of-code row
LocValue(github) ==
    Commas(Get(github, "loc_total")) \o <<" ", "(", " ", "+">> \o Commas(Get(github, "loc_added"))
        \o <<",", " ", "-">> \o Commas(Get(github, "loc_deleted")) \o <<" ", ")">>

LocEntry(github) == Row(LocMark \o LocValue(github) \o <<"_", "_">>, "loc", "normal")

\* lines 67-196: the entries of lines, given the formatted values of the
\* local record
SvgLines(art, tag, sessions, messages, total_tokens, cost, github) ==
    [i \in 1..Len(art) |-> Row(art[i], "yellow", "tight")]
    \o <<Blank, Blank, Row(tag, "gray", "normal"), Blank, Blank>>
    \o [i \in 1..3 |-> Row(Glyphs, "orange", "tight")]
    \o <<Blank,
           Row(SvgStatLine(<<"L", "o", "c", "a", "t", "i", "o", "n">>,
                           <<"N", "Y", "C", ",", " ", "N", "Y">>), "gray", "normal"),
           Row(SvgStatLine(<<"S", "h", "e", "l", "l">>,
                           <<"l", "i", "v", "i", "n", "g", " ", "t", "i", "s", "s", "u", "e", " ", "o", "v", "e", "r", " ", "m", "e", "t", "a", "l", " ", "e", "n", "d", "o", "s", "k", "e", "l", "e", "t", "o", "n">>), "gray", "normal"),
           Row(SvgStatLine(<<"L", "a", "n", "g", "u", "a", "g", "e", "s">>,
                           <<"e", "n", "g", "l", "i", "s", "h", ",", " ", "b", "a", "d", " ", "e", "n", "g", "l", "i", "s", "h", ",", " ", "h", "e", "l", "p", " ", "f", "i", "l", "e", "s">>), "gray", "normal"),
           Row(SvgStatLine(<<"F", "o", "c", "u", "s">>,
                           <<"A", "I", "/", "M", "L", ",", " ", "D", "e", "v", "e", "l", "o", "p", "e", "r", " ", "T", "o", "o", "l", "s", ",", " ", "w", "a", "n", "i", "n", "g">>), "gray", "normal"),
         Blank, Blank>>
    \o [i \in 1..3 |-> Row(Glyphs, "magenta", "tight")]
    \o <<Blank,
           Row(SvgStatLine(<<"S", "e", "s", "s", "i", "o", "n", "s">>, sessions), "gray", "normal"),
           Row(SvgStatLine(<<"M", "e", "s", "s", "a", "g", "e", "s">>, messages), "gray", "normal"),
           Row(SvgStatLine(<<"T", "o", "t", "a", "l", " ", "T", "o", "k", "e", "n", "s">>, total_tokens), "gray", "normal"),
           Row(SvgStatLine(<<"E", "s", "t", ".", " ", "A", "P", "I", " ", "C", "o", "s", "t", " ", "S", "a", "v", "e", "d">>, cost), "gray", "normal"),
         Blank, Blank>>
    \o [i \in 1..3 |-> Row(Glyphs, "green", "tight")]
    \o <<Blank,
           Row(SvgStatLine(<<"R", "e", "p", "o", "s", "i", "t", "o", "r", "i", "e", "s">>, Str(Get(github, "repos"))), "gray", "normal"),
           Row(SvgStatLine(<<"C", "o", "n", "t", "r", "i", "b", "u", "t", "e", "d", " ", "T", "o">>, Str(Get(github, "contributed_repos"))),
               "gray", "normal"),
           Row(SvgStatLine(<<"T", "o", "t", "a", "l", " ", "C", "o", "m", "m", "i", "t", "s">>, Str(Get(github, "commits"))), "gray", "normal"),
           Row(SvgStatLine(<<"P", "u", "l", "l", " ", "R", "e", "q", "u", "e", "s", "t", "s">>, Str(Get(github, "prs"))), "gray", "normal"),
         LocEntry(github),
         Blank,
         Row(<<"/", "/", " ", "T", "O", "D", "O", ":", " ", "w", "r", "i", "t", "e", " ", "g", "r", "e", "a", "t", " ", "f", "o", "o", "t", "e", "r">>, "gray", "normal"),
         Blank,
         Row(<<"L", "a", "s", "t", " ", "U", "p", "d", "a", "t", "e", "d", ":", " ", "2", "0", "2", "6", "-", "1", "1", "-", "0", "1">>, "gray", "normal")>>

\* the fields of the local record that generate_svg indexes, lines 156-159
SvgClaudeFields == {"sessions", "messages", "total_tokens", "cost_estimate"}

\* the fields of the local record that render_nfo indexes, lines 505-512
NfoClaudeFields ==
    {"sessions", "messages", "input_tokens", "output_tokens", "cache_creation",
     "cache_read", "total_tokens", "cost_estimate"}

\* str.startswith
StartsWith(str, prefix) ==
    Len(str) >= Len(prefix) /\ SubSeq(str, 1, Len(prefix)) = prefix

\* the characters of the class [\d,]
InClass(ch) == ch = "," \/ \E d \in 1..10 : Digits[d] = ch

\* a group ([\d,]+) at position i that the literal lit follows: the end of
\* the group, 0 when there is none
GroupEnd(str, i, lit) ==
    LET ends == { e \in i..Len(str) :
                    /\ \A j \in i..e : InClass(str[j])
                    /\ e + Len(lit) <= Len(str)
                    /\ SubSeq(str, e + 1, e + Len(lit)) = lit }
    IN IF ends = {} THEN 0 ELSE CHOOSE e \in ends : \A o \in ends : o <= e

\* the pattern ([\d,]+) \( \+([\d,]+), -([\d,]+) \) matched at position i:
\* its three groups, <<>> when it does not match there
MatchAt(str, i) ==
    LET e1 == GroupEnd(str, i, <<" ", "(", " ", "+">>)
        i2 == e1 + Len(<<" ", "(", " ", "+">>) + 1
        e2 == IF e1 = 0 THEN 0 ELSE GroupEnd(str, i2, <<",", " ", "-">>)
        i3 == e2 + Len(<<",", " ", "-">>) + 1
        e3 == IF e2 = 0 THEN 0 ELSE GroupEnd(str, i3, <<" ", ")">>)
    IN IF e3 = 0 THEN <<>>
       ELSE <<SubSeq(str, i, e1), SubSeq(str, i2, e2), SubSeq(str, i3, e3)>>

\* re.search, line 246: the groups of the leftmost match, <<>> when there is
\* none
Search(str) ==
    LET starts == {i \in 1..Len(str) : MatchAt(str, i) # <<>>}
    IN IF starts = {} THEN <<>>
       ELSE MatchAt(str, CHOOSE i \in starts : \A j \in starts : i <= j)

Span(class, text) == [class |-> class, text |-> text]

\* lines 238-259: the text element of the lines-of-code row
LocElement(text) ==
    LET loc_value == Replace(Replace(text, LocMark, <<>>), <<"_", "_">>, <<>>)
        key_str == LocKey
        dots == LocDots(loc_value)
        match == Search(loc_value)
    IN IF match # <<>>
       THEN << Span("gray", key_str \o <<" ">> \o dots \o <<" ">> \o match[1]
                            \o <<" ", "(", " ">>),
               Span("green", <<"+">> \o match[2]),
               Span("gray", <<",", " ">>),
               Span("red", <<"-">> \o match[3]),
               Span("gray", <<" ", ")">>) >>
       ELSE << Span("gray", key_str \o <<" ">> \o dots \o <<" ">> \o loc_value) >>

\* lines 238-263: the text element of an entry, <<>> for an empty text
Element(row) ==
    IF StartsWith(row.text, LocMark) THEN LocElement(row.text)
    ELSE IF row.text # <<>> THEN <<Span(row.color, escape_xml(row.text))>>
    ELSE <<>>

\* render_nfo, lines 505-512 and 523-528: the rows of the two tables
NfoRows(ses, msg, inp, out, cc, cr, tot, cost, commits, github) ==
    << NfoLine(NfoContent(<<"S", "e", "s", "s", "i", "o", "n", "s">>, ses)),
       NfoLine(NfoContent(<<"M", "e", "s", "s", "a", "g", "e", "s">>, msg)),
       NfoLine(NfoContent(<<"I", "n", "p", "u", "t", " ", "T", "o", "k", "e", "n", "s">>, inp)),
       NfoLine(NfoContent(<<"O", "u", "t", "p", "u", "t", " ", "T", "o", "k", "e", "n", "s">>, out)),
       NfoLine(NfoContent(<<"C", "a", "c", "h", "e", " ", "C", "r", "e", "a", "t", "e", "d">>, cc)),
       NfoLine(NfoContent(<<"C", "a", "c", "h", "e", " ", "R", "e", "a", "d">>, cr)),
       NfoLine(NfoContent(<<"T", "o", "t", "a", "l", " ", "T", "o", "k", "e", "n", "s">>, tot)),
       NfoLine(NfoContent(<<"E", "s", "t", ".", " ", "A", "P", "I", " ", "C", "o", "s", "t">>, cost)),
       NfoLine(NfoContent(<<"R", "e", "p", "o", "s", "i", "t", "o", "r", "i", "e", "s">>, Str(Get(github, "repos")))),
       NfoLine(NfoContent(<<"C", "o", "n", "t", "r", "i", "b", "u", "t", "e", "d", " ", "T", "o">>, Str(Get(github, "contributed_repos")))),
       NfoLine(NfoContent(<<"T", "o", "t", "a", "l", " ", "C", "o", "m", "m", "i", "t", "s">>, commits)),
       NfoLine(NfoContent(<<"P", "u", "l", "l", " ", "R", "e", "q", "u", "e", "s", "t", "s">>, Str(Get(github, "prs")))),
       NfoLine(NfoContent(<<"S", "t", "a", "r", "s", " ", "E", "a", "r", "n", "e", "d">>, Str(Get(github, "stars")))),
       NfoLine(NfoContent(<<"F", "o", "l", "l", "o", "w", "e", "r", "s">>, Str(Get(github, "followers")))) >>

\* a local record with every field
FullClaude ==
    [input_tokens |-> 1500, output_tokens |-> 999, cache_creation |-> 0,
     cache_read |-> 2300000, total_tokens |-> 2302499, sessions |-> 42,
     messages |-> 1234, cost_estimate |-> 1234560000]

\* d without the keys of the set gone
Without(d, gone) == [k \in DOMAIN d \ gone |-> d[k]]

\* local records: complete ones, and records of a snapshot that lack one
\* field or all of them
RenderClaude ==
    {FullClaude, NoClaude, EmptyDict}
    \cup { Without(FullClaude, {k}) : k \in DOMAIN FullClaude }

\* a remote record with large counts
LargeGithub ==
    [repos |-> 120, commits |-> 23456, stars |-> 1000, followers |-> 15,
     following |-> 1, contributed_repos |-> 30, prs |-> 250, issues |-> 7,
     loc_added |-> 1234567, loc_deleted |-> 4321, loc_total |-> 1230246]

\* remote records: computed ones, the zero record, and records of a
\* snapshot that lack fields
RenderGithub ==
    {ZeroGithub, CachedGithub, NegativeGithub, LargeGithub, EmptyDict,
     Without(CachedGithub, {"repos", "loc_added"}),
     Without(NegativeGithub, {"commits", "prs", "loc_deleted"})}

\* texts of the row under the artwork
Taglines == { <<"a", "i", " ", "d", "e", "v", "e", "l", "o", "p", "e", "r">>, <<"R", "&", "D", " ", "<", "f", "a", "s", "t", ">", " ", "&", "l", "t", ";">>, <<"a", " ", "<", " ", "b", " ", "&", "&", " ", "c", " ", ">", " ", "d">> }

RenderInit ==
    /\ renderer \in {"svg", "nfo"}
    /\ in_claude \in RenderClaude
    /\ in_github \in RenderGithub
    /\ header_art \in UNION {[1..n -> {Glyphs}] : n \in 0..MaxArtRows}
    /\ tagline \in Taglines
    /\ renderer = "nfo" => header_art = <<>> /\ tagline = <<"a", "i", " ", "d", "e", "v", "e", "l", "o", "p", "e", "r">>
    /\ spc = "build"
    /\ lines = <<>> /\ idx = 0
    /\ total_height = 0 /\ height = 0 /\ y = 0
    /\ svg = <<>>
    /\ nfo_out = <<>>

\* generate_svg, lines 67-199: claude[...] raises KeyError for a field the
\* record lacks
BuildLines ==
    /\ renderer = "svg" /\ spc = "build"
    /\ IF SvgClaudeFields \subseteq DOMAIN in_claude
       THEN /\ \E sessions \in FormatNumber(in_claude["sessions"]),
                  messages \in FormatNumber(in_claude["messages"]),
                  total_tokens \in FormatNumber(in_claude["total_tokens"]),
                  cost \in Money0(in_claude["cost_estimate"]) :
                    lines' = SvgLines(header_art, tagline, sessions, messages,
                                      total_tokens, cost, in_github)
            /\ spc' = "height"
            /\ idx' = 1
            /\ total_height' = y_start
       ELSE /\ spc' = "raised"
            /\ UNCHANGED <<lines, idx, total_height>>
    /\ UNCHANGED <<renderer, in_claude, in_github, header_art, tagline, height,
                   y, svg, nfo_out>>
    /\ UNCHANGED <<cvars, gvars, kvars, lvars, nvars>>

\* lines 200-206: one entry of the loop over lines
HeightStep ==
    /\ spc = "height" /\ idx <= Len(lines)
    /\ total_height' = total_height + HeightAdvance(lines[idx].spacing)
    /\ idx' = idx + 1
    /\ UNCHANGED <<renderer, in_claude, in_github, header_art, tagline, spc,
                   lines, height, y, svg, nfo_out>>
    /\ UNCHANGED <<cvars, gvars, kvars, lvars, nvars>>

\* lines 207 and 236
HeightDone ==
    /\ spc = "height" /\ idx > Len(lines)
    /\ height' = total_height + 30
    /\ y' = y_start
    /\ idx' = 1
    /\ spc' = "emit"
    /\ UNCHANGED <<renderer, in_claude, in_github, header_art, tagline, lines,
                   total_height, svg, nfo_out>>
    /\ UNCHANGED <<cvars, gvars, kvars, lvars, nvars>>

\* lines 237-271: one entry of the loop that emits the rows; an element
\* keeps the index of its entry
EmitRow ==
    /\ spc = "emit" /\ idx <= Len(lines)
    /\ svg' = IF Element(lines[idx]) = <<>> THEN svg
              ELSE Append(svg, [entry |-> idx, spans |-> Element(lines[idx])])
    /\ y' = y + YAdvance(lines[idx].spacing)
    /\ idx' = idx + 1
    /\ UNCHANGED <<renderer, in_claude, in_github, header_art, tagline, spc,
                   lines, total_height, height, nfo_out>>
    /\ UNCHANGED <<cvars, gvars, kvars, lvars, nvars>>

\* lines 273-274
EmitDone ==
    /\ spc = "emit" /\ idx > Len(lines)
    /\ spc' = "done"
    /\ UNCHANGED <<renderer, in_claude, in_github, header_art, tagline, lines,
                   idx, total_height, height, y, svg, nfo_out>>
    /\ UNCHANGED <<cvars, gvars, kvars, lvars, nvars>>

\* render_nfo, lines 505-528: claude[...] raises KeyError for a field the
\* record lacks
RenderNfo ==
    /\ renderer = "nfo" /\ spc = "build"
    /\ IF NfoClaudeFields \subseteq DOMAIN in_claude
       THEN /\ \E sessions \in FormatNumber(in_claude["sessions"]),
                  messages \in FormatNumber(in_claude["messages"]),
                  input_tokens \in FormatNumber(in_claude["input_tokens"]),
                  output_tokens \in FormatNumber(in_claude["output_tokens"]),
                  cache_creation \in FormatNumber(in_claude["cache_creation"]),
                  cache_read \in FormatNumber(in_claude["cache_read"]),
                  total_tokens \in FormatNumber(in_claude["total_tokens"]),
                  cost \in Money2(in_claude["cost_estimate"]),
                  commits \in FormatNumber(Get(in_github, "commits")) :
                    nfo_out' = NfoRows(sessions, messages, input_tokens,
                                       output_tokens, cache_creation, cache_read,
                                       total_tokens, cost, commits, in_github)
            /\ spc' = "done"
       ELSE /\ spc' = "raised"
            /\ UNCHANGED nfo_out
    /\ UNCHANGED <<renderer, in_claude, in_github, header_art, tagline, lines,
                   idx, total_height, height, y, svg>>
    /\ UNCHANGED <<cvars, gvars, kvars, lvars, nvars>>

----------------------------------------------------------------------------
\* Specifications

\* get_github_stats is not running
GithubIdle ==
    /\ gpc = "idle"
    /\ github_stats_json = [file |-> "absent", record |-> ZeroGithub]
    /\ degraded = "no"
    /\ data = NoData
    /\ n_repos = 0 /\ commit_log = <<>> /\ total_commits = 0
    /\ repos = <<>> /\ repo_i = 0 /\ attempt = 0 /\ stats_log = <<>>
    /\ total_added = 0 /\ total_deleted = 0
    /\ loc_stats = LocStats(0, 0)
    /\ github_result = ZeroGithub
    /\ exc = "none"

\* get_claude_stats is not running
ClaudeIdle ==
    /\ cpc = "idle"
    /\ claude_dir_exists = FALSE /\ n_files = 0 /\ files_left = 0
    /\ f = <<>>
    /\ total_input = 0 /\ total_output = 0
    /\ total_cache_creation = 0 /\ total_cache_read = 0
    /\ session_count = 0 /\ message_count = 0
    /\ stats_json = [file |-> "absent", has_claude |-> FALSE, claude |-> NoClaude]
    /\ cache_consulted = FALSE
    /\ claude_result = NoClaude
    /\ messages_at_open = 0
    /\ file_content = <<>>

\* save_stats_cache has not been called and render_nfo is not running
CacheIdle ==
    /\ kpc = "idle"
    /\ save_claude = NoClaude /\ save_github = ZeroGithub
    /\ saves = 0
    /\ last_claude = NoClaude /\ last_github = ZeroGithub
    /\ rpc = "idle" /\ render_github = ZeroGithub

\* no row is being laid out
LayoutIdle ==
    /\ row_key = <<>> /\ row_value = <<>>
    /\ rendered = {}
    /\ svg_dots = <<>> /\ svg_row = <<>>
    /\ nfo_dots = <<>> /\ nfo_visible_len = 0 /\ nfo_padding = 0
    /\ nfo_row = <<>>
    /\ loc_dots = <<>>

\* format_number is not running
FormatIdle == num = 0 /\ formatted = <<>>

\* no renderer is running
RenderIdle ==
    /\ renderer = "none"
    /\ in_claude = NoClaude /\ in_github = ZeroGithub
    /\ header_art = <<>> /\ tagline = <<>>
    /\ spc = "idle"
    /\ lines = <<>> /\ idx = 0
    /\ total_height = 0 /\ height = 0 /\ y = 0
    /\ svg = <<>>
    /\ nfo_out = <<>>

\* the state outside the two aggregators
OthersIdle == CacheIdle /\ LayoutIdle /\ FormatIdle /\ RenderIdle

ClaudeNext == OpenFile \/ ReadLine \/ CloseFile \/ FileExcept \/ ReturnClaude

\* one run of get_claude_stats
InitClaude == ClaudeInit /\ GithubIdle /\ OthersIdle

SpecClaude == InitClaude /\ [][ClaudeNext]_vars

GithubNext ==
    \/ ProbeOk \/ ProbeFails \/ PrimaryFails \/ PrimaryOk \/ IdQuery
    \/ ListRepos \/ QueryRepo \/ CommitsReturned \/ LocList \/ LocSkipFork
    \/ LocRequest \/ LocReturn \/ ReturnFresh

\* one run of get_github_stats
InitGithub == GithubInit /\ ClaudeIdle /\ OthersIdle

SpecGithub == InitGithub /\ [][GithubNext]_vars

CacheNext ==
    \/ SaveStatsJson \/ SaveGithubJson \/ CallClaude \/ ReturnClaude
    \/ CallGithub \/ ProbeOk \/ ProbeFails \/ PrimaryFails \/ RenderNoFetch
    \/ EndRun

\* processes that save the records and read them back, from a checkout that
\* holds no cache file
InitCache == ClaudeIdle /\ GithubIdle /\ OthersIdle

SpecCache == InitCache /\ [][CacheNext]_vars

LayoutNext == SvgRow \/ NfoRow \/ LocRow

\* one key and one value laid out by each of the row builders
InitLayout ==
    /\ LayoutInit /\ ClaudeIdle /\ GithubIdle /\ CacheIdle /\ FormatIdle
    /\ RenderIdle

SpecLayout == InitLayout /\ [][LayoutNext]_vars

\* one call of format_number
InitFormat ==
    /\ FormatInit /\ ClaudeIdle /\ GithubIdle /\ CacheIdle /\ LayoutIdle
    /\ RenderIdle

SpecFormat == InitFormat /\ [][format_number]_vars

RenderNext ==
    \/ BuildLines \/ HeightStep \/ HeightDone \/ EmitRow \/ EmitDone
    \/ RenderNfo

\* one run of a renderer on a pair of records
InitRender ==
    /\ RenderInit /\ ClaudeIdle /\ GithubIdle /\ CacheIdle /\ LayoutIdle
    /\ FormatIdle

SpecRender == InitRender /\ [][RenderNext]_vars

----------------------------------------------------------------------------
\* Claims about get_github_stats, get_all_commits and get_loc_stats

\* get_github_stats has ended, by returning or by an exception
GithubEnded == gpc \in {"returned", "raised"}

\* C1: when the status probe or the primary query fails, the call returns
\* the cached remote record if cache/github_stats.json is there and else the
\* all-zero record, and it does not raise.
C1_DegradesToStored ==
    (GithubEnded /\ degraded # "no") =>
        /\ gpc = "returned"
        /\ github_result =
             IF github_stats_json.file = "absent"
             THEN [repos |-> 0, commits |-> 0, stars |-> 0, followers |-> 0,
                   following |-> 0, loc_added |-> 0, loc_deleted |-> 0,
                   contributed_repos |-> 0, prs |-> 0, issues |-> 0]
             ELSE github_stats_json.record

\* C2: whatever the outcomes of the external calls, get_github_stats ends
\* by returning a record: no exception leaves it.
C2_NeverRaises == gpc # "raised" /\ exc = "none"

Last(seq) == seq[Len(seq)]

\* C3: the contributor statistics of a non-fork repository are requested at
\* most 3 times; a not-ready response (None) before the third attempt is
\* followed by another request for the same repository; after the third
\* one the repository has added nothing and the loop goes on to the next.
C3_BoundedRetry ==
    [][/\ \A i \in DOMAIN stats_log' : Len(stats_log'[i]) <= 3
       /\ (gpc = "loc_loop" /\ stats_log' # stats_log) =>
            LET asked == Len(stats_log'[repo_i])
                got == Last(stats_log'[repo_i])
            IN /\ ~repos[repo_i]
               /\ asked > 1 => stats_log[repo_i][asked - 1].shape = "none"
               /\ got.shape = "none" =>
                    /\ UNCHANGED <<total_added, total_deleted>>
                    /\ gpc' = "loc_loop"
                    /\ repo_i' = IF asked < 3 THEN repo_i ELSE repo_i + 1]_vars

\* the first repository was asked 3 times in vain, the second one counted
C3_Witness ==
    /\ gpc = "loc_returned" /\ Len(repos) = 2
    /\ Len(stats_log[1]) = 3 /\ \A k \in 1..3 : stats_log[1][k].shape = "none"
    /\ Len(stats_log[2]) = 1 /\ loc_stats.loc_added = 3

RECURSIVE SumTotalCount(_)
SumTotalCount(log) ==
    IF log = <<>> THEN 0
    ELSE (IF Head(log).shape = "ok" THEN Head(log).totalCount ELSE 0)
         + SumTotalCount(Tail(log))

SameIgnoringCase(a, b) ==
    Len(a) = Len(b) /\ \A i \in 1..Len(a) : LowerChar(a[i]) = LowerChar(b[i])

RECURSIVE WeeklySum(_, _)
WeeklySum(weeks, key) ==
    IF weeks = <<>> THEN 0
    ELSE (IF key \in DOMAIN Head(weeks) THEN Head(weeks)[key] ELSE 0)
         + WeeklySum(Tail(weeks), key)

RECURSIVE AccountSum(_, _)
\* over the entries of the account, the sum of their weekly counts
AccountSum(contributors, key) ==
    IF contributors = <<>> THEN 0
    ELSE (IF Head(contributors).has_author
             /\ SameIgnoringCase(Head(contributors).login, Username)
          THEN WeeklySum(Head(contributors).weeks, key) ELSE 0)
         + AccountSum(Tail(contributors), key)

\* what repository i is to add: nothing for a fork or when no statistics
\* were obtained
RepoSum(i, key) ==
    IF repos[i] \/ stats_log[i] = <<>> \/ Last(stats_log[i]).shape # "list"
    THEN 0
    ELSE AccountSum(Last(stats_log[i]).contributors, key)

RECURSIVE LocSum(_, _)
LocSum(n, key) == IF n = 0 THEN 0 ELSE RepoSum(n, key) + LocSum(n - 1, key)

\* every non-fork repository of the listing was asked for its statistics
AllAsked == \A i \in 1..Len(repos) : repos[i] \/ stats_log[i] # <<>>

\* C5: loc_added and loc_deleted are the sums of the weekly 'a' and 'd'
\* counts of the account's contributor entry (login compared ignoring
\* case) over the non-fork repositories whose statistics were obtained.
C5_LocSums ==
    gpc = "loc_returned" =>
        /\ AllAsked
        /\ loc_stats.loc_added = LocSum(Len(repos), "a")
        /\ loc_stats.loc_deleted = LocSum(Len(repos), "d")

\* a fork, and a repository whose entry has the login in upper case
C5_Witness ==
    /\ gpc = "loc_returned" /\ Len(repos) = 2 /\ repos[1] /\ ~repos[2]
    /\ Last(stats_log[2]).shape = "list"
    /\ \E k \in DOMAIN Last(stats_log[2]).contributors :
          Last(stats_log[2]).contributors[k].login = UserUpper
    /\ loc_stats.loc_added = 3 /\ loc_stats.loc_deleted = 0

\* C6: every record get_loc_stats returns has loc_total = loc_added -
\* loc_deleted (signed), and the fresh record of get_github_stats holds
\* the same three values.
C6_LocTotalSigned ==
    /\ gpc = "loc_returned" =>
          loc_stats.loc_total = loc_stats.loc_added - loc_stats.loc_deleted
    /\ (gpc = "returned" /\ degraded = "no") =>
          /\ github_result.loc_total =
                github_result.loc_added - github_result.loc_deleted
          /\ github_result.loc_added = loc_stats.loc_added
          /\ github_result.loc_deleted = loc_stats.loc_deleted
          /\ github_result.loc_total = loc_stats.loc_total

\* deletions exceed additions: the total is negative
C6_Witness ==
    /\ gpc = "returned" /\ degraded = "no"
    /\ github_result.loc_added = 0 /\ github_result.loc_deleted = 3
    /\ github_result.loc_total = -3

----------------------------------------------------------------------------
\* Claims about get_claude_stats

\* a line the claims call usage-bearing: message.usage carries a token field
UsageBearing(line) ==
    HasMessageDict(line) /\ DOMAIN UsageOf(line) \cap TokenFields # {}

UsageLines(content) ==
    Cardinality({i \in 1..Len(content) : UsageBearing(content[i])})

\* the scan of the open file has just ended (exhausted, or left by except)
FileDone == cpc = "except" \/ (cpc = "lines" /\ f = <<>> /\ file_content # <<>>)

\* C7: every usage-bearing line of a file is counted in messageCount,
\* whatever other lines (invalid JSON, or valid JSON that is no usage
\* record) stand before or after it in the same file.
C7_LinesIndependent ==
    FileDone => message_count - messages_at_open >= UsageLines(file_content)

CountersUnchanged ==
    UNCHANGED <<message_count, total_input, total_output,
                total_cache_creation, total_cache_read>>

\* C8 as claimed: a record whose usage carries none of the four token
\* fields (absent, empty, or only other keys) changes no counter.
C8_OnlyTokenFieldsCount ==
    [][(cpc = "lines" /\ f # <<>> /\ ~UsageBearing(Head(f))) => CountersUnchanged]_vars

\* C8 amended: a parsed record is counted exactly when it has a nested
\* message.usage object with at least one key; a counted record adds 1 to
\* messageCount and, per token field, its value or 0 when it lacks it; any
\* other record changes no counter.
C8_NonEmptyUsageCounts ==
    [][(cpc = "lines" /\ f # <<>>) =>
         LET line == Head(f)
             u == IF line.has_usage THEN line.usage ELSE EmptyDict
             add(k) == IF k \in DOMAIN u THEN u[k] ELSE 0
         IN IF line.json = "object" /\ line.message = "dict" /\ DOMAIN u # {}
            THEN /\ message_count' = message_count + 1
                 /\ total_input' = total_input + add("input_tokens")
                 /\ total_output' = total_output + add("output_tokens")
                 /\ total_cache_creation' =
                        total_cache_creation + add("cache_creation_input_tokens")
                 /\ total_cache_read' =
                        total_cache_read + add("cache_read_input_tokens")
            ELSE CountersUnchanged]_vars

\* a record with only unrecognised usage keys and one lacking the cache
\* fields were both counted
C8_Witness ==
    /\ file_content = <<OtherUsage, PartialUsage>> /\ f = <<>>
    /\ message_count = 2 /\ total_input = 1 /\ total_output = 2
    /\ total_cache_creation = 0 /\ total_cache_read = 0

\* C9: with no log root or no *.jsonl file the result is the cached local
\* record when cache/stats.json holds one and else the all-zero record;
\* with at least one file the cache is not consulted and the record is
\* the one computed from the files.
C9_CacheFallback ==
    cpc = "returned" =>
        IF n_files = 0
        THEN claude_result =
               IF stats_json.file = "json" /\ stats_json.has_claude
               THEN stats_json.claude
               ELSE [input_tokens |-> 0, output_tokens |-> 0, cache_creation |-> 0,
                     cache_read |-> 0, total_tokens |-> 0, sessions |-> 0,
                     messages |-> 0, cost_estimate |-> 0]
        ELSE /\ ~cache_consulted
             /\ claude_result.sessions = n_files
             /\ claude_result.messages = message_count
             /\ claude_result.input_tokens = total_input
             /\ claude_result.output_tokens = total_output
             /\ claude_result.cache_creation = total_cache_creation
             /\ claude_result.cache_read = total_cache_read

\* no log file and a snapshot with a local record: that record is returned
C9_Witness ==
    /\ cpc = "returned" /\ n_files = 0 /\ cache_consulted
    /\ stats_json.has_claude /\ claude_result.sessions = 2

\* C10: the cost of a record computed from log files, in millionths, is
\* 10*(input + cache creation) + 30*output + 1*cache read.
C10_Cost ==
    (cpc = "returned" /\ n_files > 0) =>
        claude_result.cost_estimate =
            10 * (claude_result.input_tokens + claude_result.cache_creation)
            + 30 * claude_result.output_tokens
            + 1 * claude_result.cache_read

C10_Witness ==
    /\ cpc = "returned" /\ n_files > 0
    /\ claude_result.input_tokens > 0 /\ claude_result.output_tokens > 0
    /\ claude_result.cache_creation > 0 /\ claude_result.cache_read > 0
    /\ claude_result.cost_estimate = 10 * (3 + 1) + 30 * 3 + 3

----------------------------------------------------------------------------
\* Claims about save_stats_cache and the cache reads

\* C11: every fallback read (get_github_stats after a failed probe or
\* primary query, render_nfo without fetching, get_claude_stats with no log
\* file) returns the records of the call of save_stats_cache that ended
\* last; before any call has ended the files are absent and the reads give
\* the zero records.
C11_ReadsLastSaved ==
    /\ (gpc = "returned" /\ degraded # "no") =>
          github_result = IF saves > 0 THEN last_github ELSE ZeroGithub
    /\ rpc = "loaded" =>
          render_github = IF saves > 0 THEN last_github ELSE ZeroGithub
    /\ cpc = "returned" =>
          /\ cache_consulted
          /\ claude_result = IF saves > 0 THEN last_claude ELSE NoClaude
    /\ (saves = 0 /\ kpc = "idle") =>
          /\ stats_json.file = "absent"
          /\ github_stats_json.file = "absent"
    /\ gpc # "raised" /\ rpc # "raised"

C11_Witness ==
    /\ saves = MaxSaves
    /\ gpc = "returned" /\ degraded = "primary" /\ github_result = CachedGithub
    /\ rpc = "loaded" /\ render_github = CachedGithub
    /\ cpc = "returned" /\ claude_result = last_claude
    /\ claude_result # NoClaude

----------------------------------------------------------------------------
\* Claims about the dot-leader rows

\* C12: when len(key) + len(value) + 3 <= 90 the row of the SVG stat_line
\* is key, ':', a space, the dots, a space and the value, with exactly
\* 90 - len(key + ':') - len(value) - 2 dots, and is 90 characters long.
C12_SvgRowFillsWidth ==
    ("svg" \in rendered /\ Len(row_key) + Len(row_value) + 3 <= 90) =>
        LET n == 90 - (Len(row_key) + 1) - Len(row_value) - 2
            k == Len(row_key)
        IN /\ Len(svg_row) = 90
           /\ SubSeq(svg_row, 1, k) = row_key
           /\ svg_row[k + 1] = ":" /\ svg_row[k + 2] = " "
           /\ \A i \in 1..n : svg_row[k + 2 + i] = "."
           /\ svg_row[k + 3 + n] = " "
           /\ SubSeq(svg_row, k + 4 + n, 90) = row_value
           /\ Len(svg_dots) = n

C12_Witness ==
    /\ "svg" \in rendered
    /\ row_key = Sessions /\ row_value = FortyTwo
    /\ Len(svg_row) = 90 /\ Len(svg_dots) = 77

\* C13: every key/value row of either renderer (SVG stat_line, SVG
\* lines-of-code row, terminal stat_line) holds at least 3 dots, whatever
\* the lengths of the key and the value.
C13_AtLeastThreeDots ==
    /\ "svg" \in rendered => Len(svg_dots) >= 3
    /\ "loc" \in rendered => Len(loc_dots) >= 3
    /\ "nfo" \in rendered => Len(nfo_dots) >= 3

\* C14: the visible content of a dot-leader row of the terminal renderer
\* is exactly 94 characters long, with 94 - len(key + ':') - len(value) - 2
\* dots, so that line adds no padding.
C14_NfoRowFillsWidth ==
    ("nfo" \in rendered /\ Len(row_key) + Len(row_value) + 3 <= 94) =>
        /\ nfo_visible_len = 94
        /\ Len(nfo_dots) = 94 - (Len(row_key) + 1) - Len(row_value) - 2
        /\ nfo_padding = 0

----------------------------------------------------------------------------
\* Claims about format_number

\* the number a string of digits writes
RECURSIVE Val(_)
Val(digits) ==
    IF digits = <<>> THEN 0
    ELSE 10 * Val(SubSeq(digits, 1, Len(digits) - 1))
         + (CHOOSE d \in 0..9 : Digits[d + 1] = digits[Len(digits)])

IsDigits(str) ==
    /\ Len(str) >= 1
    /\ \A i \in 1..Len(str) : \E d \in 1..10 : Digits[d] = str[i]
    /\ Len(str) > 1 => str[1] # "0"

\* str is digits, a point, one digit and the suffix, and the number written
\* is num / unit rounded to a nearest tenth
OneDecimal(str, unit, suffix) ==
    LET len == Len(str)
    IN /\ len >= 4
       /\ str[len] = suffix
       /\ str[len - 2] = "."
       /\ IsDigits(SubSeq(str, 1, len - 3))
       /\ IsDigits(<<str[len - 1]>>)
       /\ LET t == 10 * Val(SubSeq(str, 1, len - 3)) + Val(<<str[len - 1]>>)
          IN /\ 10 * t * (unit \div 10) - num * 10 <= unit \div 2
             /\ num * 10 - 10 * t * (unit \div 10) <= unit \div 2

----------------------------------------------------------------------------
\* Claims about generate_svg and render_nfo

\* the entries of lines with a spacing
CountOf(spacing) == Cardinality({i \in 1..Len(lines) : lines[i].spacing = spacing})

\* C15: the canvas height is 30 + 13 * (tight rows) + 20 * (normal rows)
\* + 10 * (blank rows) + 30, and it is the y reached after the last row
\* plus 30.
C15_Height ==
    (renderer = "svg" /\ spc = "done") =>
        /\ height = 30 + 13 * CountOf("tight") + 20 * CountOf("normal")
                       + 10 * CountOf("blank") + 30
        /\ height = y + 30
        /\ \A i \in 1..Len(lines) : lines[i].spacing \in {"tight", "normal", "blank"}

C15_Witness ==
    /\ renderer = "svg" /\ spc = "done"
    /\ CountOf("tight") = 9 + MaxArtRows /\ CountOf("normal") = 16
    /\ CountOf("blank") = 13
    /\ height = y + 30

\* the entity of a character, the character itself when it has none
Entity(ch) ==
    CASE ch = "&" -> <<"&", "a", "m", "p", ";">>
      [] ch = "<" -> <<"&", "l", "t", ";">>
      [] ch = ">" -> <<"&", "g", "t", ";">>
      [] OTHER -> <<ch>>

\* every character of str written as its entity
RECURSIVE Escaped(_)
Escaped(str) ==
    IF str = <<>> THEN <<>> ELSE Entity(Head(str)) \o Escaped(Tail(str))

\* the characters of str from position i that prefix has room for
At(str, i, prefix) ==
    i + Len(prefix) - 1 <= Len(str) /\ SubSeq(str, i, i + Len(prefix) - 1) = prefix

\* no raw angle bracket, and every ampersand opens one of the three entities
WellFormed(text) ==
    \A i \in 1..Len(text) :
        /\ text[i] \notin {"<", ">"}
        /\ text[i] = "&" =>
              \/ At(text, i, <<"&", "a", "m", "p", ";">>)
              \/ At(text, i, <<"&", "l", "t", ";">>)
              \/ At(text, i, <<"&", "g", "t", ";">>)

\* the text of an element: its spans one after the other
RECURSIVE TextOf(_)
TextOf(spans) ==
    IF spans = <<>> THEN <<>> ELSE Head(spans).text \o TextOf(Tail(spans))

IsLoc(i) == lines[i].color = "loc"

\* C16: the text of every element embedded in the SVG is the escaped text
\* of its row ('&' as &amp;, '<' as &lt;, '>' as &gt;, no entity escaped
\* twice) and holds no raw angle bracket; the lines-of-code row too holds
\* none of the three characters unescaped.
C16_CellsEscaped ==
    \A e \in 1..Len(svg) :
        /\ WellFormed(TextOf(svg[e].spans))
        /\ ~IsLoc(svg[e].entry) =>
              TextOf(svg[e].spans) = Escaped(lines[svg[e].entry].text)

C16_Witness ==
    /\ spc = "done"
    /\ \E e \in 1..Len(svg) :
          /\ ~IsLoc(svg[e].entry)
          /\ lines[svg[e].entry].text = <<"R", "&", "D", " ", "<", "f", "a", "s", "t", ">", " ", "&", "l", "t", ";">>
          /\ svg[e].spans[1].text = <<"R", "&", "a", "m", "p", ";", "D", " ", "&", "l", "t", ";", "f", "a", "s", "t", "&", "g", "t", ";", " ", "&", "a", "m", "p", ";", "l", "t", ";">>
    /\ \E e \in 1..Len(svg) : IsLoc(svg[e].entry)

\* a renderer has ended with its complete output
RenderDone ==
    \/ renderer = "svg" /\ spc = "done" /\ Len(svg) > 0
    \/ renderer = "nfo" /\ spc = "done" /\ Len(nfo_out) = 14

\* C18: both renderers produce their output without raising for every pair
\* of records, among them the zero remote record without loc_total and
\* records of a snapshot in which fields are missing.
C18_RenderersNeverRaise ==
    /\ spc # "raised"
    /\ spc = "done" => RenderDone

\* str ends with suffix
EndsWith(str, suffix) ==
    /\ Len(str) >= Len(suffix)
    /\ SubSeq(str, Len(str) - Len(suffix) + 1, Len(str)) = suffix

\* C19: the lines-of-code row shows three segments: the total as formatted,
\* with its minus sign when negative, the additions after '+' and the
\* deletions after '-'.
C19_LocSegments ==
    \A e \in 1..Len(svg) :
        IsLoc(svg[e].entry) =>
            LET spans == svg[e].spans
            IN /\ Len(spans) = 5
               /\ StartsWith(spans[1].text, LocKey \o <<" ", ".">>)
               /\ EndsWith(spans[1].text,
                           <<".", " ">> \o Commas(Get(in_github, "loc_total"))
                              \o <<" ", "(", " ">>)
               /\ spans[2] = Span("green", <<"+">> \o Commas(Get(in_github, "loc_added")))
               /\ spans[4] = Span("red", <<"-">> \o Commas(Get(in_github, "loc_deleted")))

====
